---- MODULE Spec2Model ----
(***************************************************************************)
(* Model of the affine toolkit of fatbACPC:                                *)
(*   contrib/axisAnglesToRotMatToAffine.py  compose, concat,               *)
(*                                          axisAnglesToRotMat             *)
(*   tools/python/decompose.py              decompose, rotMatToAxisAngles  *)
(*   tools/python/axisBounds.py             _fillPoints, axisBounds,       *)
(*                                          transform                      *)
(*                                                                         *)
(* Numbers are exact rationals <<n, d>> (d > 0, lowest terms): the model   *)
(* follows the arithmetic the code performs, without floating-point        *)
(* rounding.  An angle is the point <<cos, sin>> it marks on the unit      *)
(* circle, which identifies the angles of (-pi, pi] one to one; np.cos and *)
(* np.sin read its coordinates and np.arctan2(y, x) normalises <<x, y>>.   *)
(* Matrices are tuples of rows; At(M, i, j) uses the 0-based indices of    *)
(* the source.                                                             *)
(***************************************************************************)
EXTENDS Integers, Sequences, FiniteSets, TLC

VARIABLES
    pc,         \* position of the running script
    inAngles,   \* rotation conversion: the axis-angle triple given
    rotMat,     \* rotation conversion: the (3, 3) rotation matrix
    decoded,    \* rotation conversion: rotMatToAxisAngles(rotmat)
    reencoded,  \* rotation conversion: axisAnglesToRotMat(*decoded)
    inScales,   \* compose: the scales argument
    inOffsets,  \* compose: the offsets argument
    inRotations, \* compose: the rotations argument (angles or matrix)
    inOrigin,   \* compose: the origin argument, or None
    xform,      \* the (4, 4) affine composed or read from a file
    asAngles,   \* decompose: the angles argument
    result,     \* decompose: <<scales, translations, rotations>>
    inShape,    \* axisBounds: the shape argument
    inXform,    \* axisBounds and transform: the xform argument
    inAxes,     \* axisBounds and transform: the axes argument, or None
    inOriginName, \* axisBounds: the origin argument, a string
    inOffset,   \* axisBounds: the offset argument
    inBoundary, \* axisBounds: the boundary argument of the second call
    plain,      \* axisBounds: what the call with boundary=None gave
    bounds,     \* axisBounds: what the call with inBoundary gave
    inPoints,   \* transform: the p argument
    inVector,   \* transform: the vector argument
    out         \* transform: what the call gave

rotVars == <<inAngles, rotMat, decoded, reencoded>>
affVars == <<inScales, inOffsets, inRotations, inOrigin, xform, asAngles, result>>
bndVars == <<inShape, inOriginName, inOffset, inBoundary, plain, bounds>>
trVars  == <<inPoints, inVector, out>>
vars == <<pc, rotVars, affVars, inXform, inAxes, bndVars, trVars>>

None == "None"

\* ------------------------------------------------------------------------
\* Exact rational arithmetic
\* ------------------------------------------------------------------------
AbsI(n) == IF n < 0 THEN -n ELSE n

\* the greatest common divisor of an integer and a natural number
RECURSIVE Gcd(_, _)
Gcd(a, b) == IF b = 0 THEN AbsI(a) ELSE Gcd(b, a % b)

Reduce(n, d, g) == <<n \div g, d \div g>>

\* the rational n/d in lowest terms with a positive denominator
Q(n, d) ==
    IF d < 0 THEN Reduce(-n, -d, Gcd(n, -d)) ELSE Reduce(n, d, Gcd(n, d))

I(n) == <<n, 1>>
Zero == <<0, 1>>
One  == <<1, 1>>

\* a + b over the least common denominator, g the gcd of the denominators
AddOver(a, b, g) ==
    Q(a[1] * (b[2] \div g) + b[1] * (a[2] \div g), (a[2] \div g) * b[2])
Add(a, b) ==
    IF a[1] = 0 THEN b
    ELSE IF b[1] = 0 THEN a
    ELSE AddOver(a, b, Gcd(a[2], b[2]))

Neg(a) == <<-a[1], a[2]>>
Sub(a, b) == Add(a, Neg(b))

\* a * b with the common factors g1 of a[1], b[2] and g2 of b[1], a[2]
\* cancelled first
MulOver(a, b, g1, g2) ==
    <<(a[1] \div g1) * (b[1] \div g2), (a[2] \div g2) * (b[2] \div g1)>>
Mul(a, b) ==
    IF a[1] = 0 \/ b[1] = 0 THEN Zero
    ELSE IF a = One THEN b
    ELSE IF b = One THEN a
    ELSE MulOver(a, b, Gcd(a[1], b[2]), Gcd(b[1], a[2]))

Inv(a) == IF a[1] < 0 THEN <<-a[2], -a[1]>> ELSE <<a[2], a[1]>>
Div(a, b) == Mul(a, Inv(b))

Sign(a) == IF a[1] < 0 THEN -1 ELSE IF a[1] = 0 THEN 0 ELSE 1
Lt(a, b) == Sign(Sub(a, b)) < 0
Le(a, b) == Sign(Sub(a, b)) <= 0
AbsQ(a) == <<AbsI(a[1]), a[2]>>
MinQ(a, b) == IF Lt(b, a) THEN b ELSE a
MaxQ(a, b) == IF Lt(a, b) THEN b ELSE a

\* floor of the square root of a natural number (Newton iteration)
RECURSIVE ISqrtFrom(_, _)
ISqrtFrom(k, r) ==
    IF r <= k \div r THEN r ELSE ISqrtFrom(k, (r + k \div r) \div 2)

ISqrt(k) == IF k < 2 THEN k ELSE ISqrtFrom(k, k \div 2)

\* np.sqrt on a non-negative rational whose root is rational
Sqrt(a) == <<ISqrt(a[1]), ISqrt(a[2])>>

IsSquare(a) == /\ a[1] >= 0
               /\ ISqrt(a[1]) * ISqrt(a[1]) = a[1]
               /\ ISqrt(a[2]) * ISqrt(a[2]) = a[2]

\* ------------------------------------------------------------------------
\* Vectors and matrices
\* ------------------------------------------------------------------------
At(M, i, j) == M[i + 1][j + 1]

\* the tuples <<F(1), F(2), F(3)>> and <<F(1), F(2), F(3), F(4)>>
Tup3(F(_)) == <<F(1), F(2), F(3)>>
Tup4(F(_)) == <<F(1), F(2), F(3), F(4)>>

Dot3(u, v) == Add(Add(Mul(u[1], v[1]), Mul(u[2], v[2])), Mul(u[3], v[3]))
Dot4(u, v) == Add(Dot3(u, v), Mul(u[4], v[4]))

Col3(M, j) == <<M[1][j], M[2][j], M[3][j]>>
Col4(M, j) == <<M[1][j], M[2][j], M[3][j], M[4][j]>>

VScale3(k, v) == Tup3(LAMBDA i : Mul(k, v[i]))
VSub3(u, v) == Tup3(LAMBDA i : Sub(u[i], v[i]))
VAdd3(u, v) == Tup3(LAMBDA i : Add(u[i], v[i]))
VNeg3(v) == <<Neg(v[1]), Neg(v[2]), Neg(v[3])>>

Row3(r, B) == Tup3(LAMBDA j : Dot3(r, Col3(B, j)))
Row4(r, B) == Tup4(LAMBDA j : Dot4(r, Col4(B, j)))

\* np.dot on two (3, 3) matrices, on two (4, 4) matrices, and on a (3, 3)
\* matrix and a vector
MatMul3(A, B) == Tup3(LAMBDA i : Row3(A[i], B))
MatMul4(A, B) == Tup4(LAMBDA i : Row4(A[i], B))
MatVec3(M, v) == Tup3(LAMBDA i : Dot3(M[i], v))

\* M.T
Transpose3(M) == <<Col3(M, 1), Col3(M, 2), Col3(M, 3)>>

\* np.eye(3), np.eye(4)
Eye3 == <<<<One, Zero, Zero>>, <<Zero, One, Zero>>, <<Zero, Zero, One>>>>
Eye4 == <<<<One, Zero, Zero, Zero>>, <<Zero, One, Zero, Zero>>,
          <<Zero, Zero, One, Zero>>, <<Zero, Zero, Zero, One>>>>

\* numpy.linalg.det of a (3, 3) matrix
Det3(M) ==
    LET a == M[1] b == M[2] c == M[3]
    IN  Add(Sub(Mul(a[1], Sub(Mul(b[2], c[3]), Mul(b[3], c[2]))),
                Mul(a[2], Sub(Mul(b[1], c[3]), Mul(b[3], c[1])))),
            Mul(a[3], Sub(Mul(b[1], c[2]), Mul(b[2], c[1]))))

\* ------------------------------------------------------------------------
\* Angles
\* ------------------------------------------------------------------------
Cos(a) == a[1]
Sin(a) == a[2]

\* sqrt(x ** 2 + y ** 2)
Hypot(x, y) == Sqrt(Add(Mul(x, x), Mul(y, y)))

Direction(x, y, r) == IF r = Zero THEN <<One, Zero>> ELSE <<Div(x, r), Div(y, r)>>

\* np.arctan2(y, x): the angle of (-pi, pi] in the direction of <<x, y>>;
\* arctan2(0, 0) is 0
Arctan2(y, x) == Direction(x, y, Hypot(x, y))

\* np.isclose(a, 0) with the default atol = 1e-8 (rtol scales |0|)
IsCloseAtol == 100000000
IsCloseZero(a) == a[1] = 0 \/ a[2] \div AbsI(a[1]) >= IsCloseAtol

\* ------------------------------------------------------------------------
\* contrib/axisAnglesToRotMatToAffine.py
\* ------------------------------------------------------------------------
\* concat(*xforms) for 3 matrices of shape (3, 3)
concat3(A, B, C) == MatMul3(MatMul3(A, B), C)

concat_Reversed(A, B, C, D, E) ==
    MatMul4(MatMul4(MatMul4(MatMul4(E, D), C), B), A)

\* concat(*xforms) for 5 matrices of shape (4, 4)
concat(A, B, C, D, E) == MatMul4(MatMul4(MatMul4(MatMul4(A, B), C), D), E)

axisAnglesToRotMat_XYZ(xrot, yrot, zrot) ==
    LET xmat == <<<<One,  Zero,      Zero>>,
                  <<Zero, Cos(xrot), Neg(Sin(xrot))>>,
                  <<Zero, Sin(xrot), Cos(xrot)>>>>
        ymat == <<<<Cos(yrot),      Zero, Sin(yrot)>>,
                  <<Zero,           One,  Zero>>,
                  <<Neg(Sin(yrot)), Zero, Cos(yrot)>>>>
        zmat == <<<<Cos(zrot), Neg(Sin(zrot)), Zero>>,
                  <<Sin(zrot), Cos(zrot),      Zero>>,
                  <<Zero,      Zero,           One>>>>
    IN  concat3(xmat, ymat, zmat)

axisAnglesToRotMat(xrot, yrot, zrot) ==
    LET xmat == <<<<One,  Zero,      Zero>>,
                  <<Zero, Cos(xrot), Neg(Sin(xrot))>>,
                  <<Zero, Sin(xrot), Cos(xrot)>>>>
        ymat == <<<<Cos(yrot),      Zero, Sin(yrot)>>,
                  <<Zero,           One,  Zero>>,
                  <<Neg(Sin(yrot)), Zero, Cos(yrot)>>>>
        zmat == <<<<Cos(zrot), Neg(Sin(zrot)), Zero>>,
                  <<Sin(zrot), Cos(zrot),      Zero>>,
                  <<Zero,      Zero,           One>>>>
    IN  concat3(zmat, ymat, xmat)

\* rotations.shape == (3,): three angles rather than a (3, 3) matrix
IsAngleTriple(rotations) == Len(rotations[1]) = 2

\* np.eye(4) with column 3 of rows 0..2 set to v
Translate4(v) == <<<<One, Zero, Zero, v[1]>>, <<Zero, One, Zero, v[2]>>,
                   <<Zero, Zero, One, v[3]>>, <<Zero, Zero, Zero, One>>>>

\* np.eye(4) with the diagonal of rows 0..2 set to scales
Scale4(scales) ==
    <<<<scales[1], Zero, Zero, Zero>>, <<Zero, scales[2], Zero, Zero>>,
      <<Zero, Zero, scales[3], Zero>>, <<Zero, Zero, Zero, One>>>>

\* np.eye(4) with [:3, :3] set to rots
Rotate4(rots) ==
    <<<<rots[1][1], rots[1][2], rots[1][3], Zero>>,
      <<rots[2][1], rots[2][2], rots[2][3], Zero>>,
      <<rots[3][1], rots[3][2], rots[3][3], Zero>>,
      <<Zero, Zero, Zero, One>>>>

compose(scales, offsets, rotations, origin) ==
    LET preRotate  == IF origin # None THEN Translate4(VNeg3(origin)) ELSE Eye4
        postRotate == IF origin # None THEN Translate4(origin) ELSE Eye4
        scale  == Scale4(scales)
        offset == Translate4(offsets)
        rotate == Rotate4(IF IsAngleTriple(rotations)
                          THEN axisAnglesToRotMat(rotations[1], rotations[2],
                                                  rotations[3])
                          ELSE rotations)
    IN  concat(offset, postRotate, rotate, preRotate, scale)

rotMatToAffine(rotmat, origin) ==
    compose(<<One, One, One>>, <<Zero, Zero, Zero>>, rotmat, origin)

\* ------------------------------------------------------------------------
\* tools/python/decompose.py
\* ------------------------------------------------------------------------
rotMatToAxisAngles_NoGimbalBranch(rotmat) ==
    LET yrot == Hypot(At(rotmat, 0, 0), At(rotmat, 1, 0))
    IN  <<Arctan2(At(rotmat, 2, 1), At(rotmat, 2, 2)),
          Arctan2(Neg(At(rotmat, 2, 0)), yrot),
          Arctan2(At(rotmat, 1, 0), At(rotmat, 0, 0))>>

rotMatToAxisAngles(rotmat) ==
    LET yrot == Hypot(At(rotmat, 0, 0), At(rotmat, 1, 0))
    IN  IF IsCloseZero(yrot)
        THEN <<Arctan2(Neg(At(rotmat, 1, 2)), At(rotmat, 1, 1)),
               Arctan2(Neg(At(rotmat, 2, 0)), yrot),
               <<One, Zero>>>>
        ELSE <<Arctan2(At(rotmat, 2, 1), At(rotmat, 2, 2)),
               Arctan2(Neg(At(rotmat, 2, 0)), yrot),
               Arctan2(At(rotmat, 1, 0), At(rotmat, 0, 0))>>

\* decompose up to the determinant test, one step of the code after the
\* other; the result is <<sx, sy, sz, <<M1, M2, M3>>>>.
\* sz = |M3| and M3 = M3 / sz
NormaliseM3(sx, sy, M1, M2, M3) ==
    <<sx, sy, Sqrt(Dot3(M3, M3)),
      <<M1, M2, VScale3(Inv(Sqrt(Dot3(M3, M3))), M3)>>>>

\* sxz = M1 . M3, syz = M2 . M3 and M3 = M3 - sxz * M1 - syz * M2
OrthogonaliseM3(sx, sy, M1, M2, M3) ==
    NormaliseM3(sx, sy, M1, M2,
                VSub3(VSub3(M3, VScale3(Dot3(M1, M3), M1)),
                      VScale3(Dot3(M2, M3), M2)))

\* sy = |M2| and M2 = M2 / sy
NormaliseM2(sx, M1, M2, M3) ==
    OrthogonaliseM3(sx, Sqrt(Dot3(M2, M2)), M1,
                    VScale3(Inv(Sqrt(Dot3(M2, M2))), M2), M3)

\* sx = |M1|, sxy = M1 . M2 and M2 = M2 - sxy * M1; M1 stays as it is
OrthogonaliseM2(M1, M2, M3) ==
    NormaliseM2(Sqrt(Dot3(M1, M1)), M1,
                VSub3(M2, VScale3(Dot3(M1, M2), M1)), M3)

\* M1, M2, M3 are the rows of xform.T[:3, :3]
Orthogonalise(xf) == OrthogonaliseM2(Col3(xf, 1), Col3(xf, 2), Col3(xf, 3))

FoldReflection_OntoSz(g) ==
    IF Sign(Det3(g[4])) < 0
    THEN <<g[1], g[2], Neg(g[3]), <<g[4][1], g[4][2], VNeg3(g[4][3])>>>>
    ELSE g

FoldReflection_AllScalesNegated(g) ==
    IF Sign(Det3(g[4])) < 0
    THEN <<Neg(g[1]), Neg(g[2]), Neg(g[3]),
           <<VNeg3(g[4][1]), VNeg3(g[4][2]), VNeg3(g[4][3])>>>>
    ELSE g

\* if linalg.det(R) < 0: R[0] = -R[0]; sx = -sx
FoldReflection(g) ==
    IF Sign(Det3(g[4])) < 0
    THEN <<Neg(g[1]), g[2], g[3], <<VNeg3(g[4][1]), g[4][2], g[4][3]>>>>
    ELSE g

Rotations_NotTransposed(R, angles) ==
    IF angles THEN rotMatToAxisAngles(R) ELSE R

\* rotMatToAxisAngles(R.T) if angles, else R.T
Rotations(R, angles) ==
    IF angles THEN rotMatToAxisAngles(Transpose3(R)) ELSE Transpose3(R)

\* [sx, sy, sz], translations, rotations
Decomposed(g, translations, angles) ==
    <<<<g[1], g[2], g[3]>>, translations, Rotations(g[4], angles)>>

decompose(xf, angles) ==
    Decomposed(FoldReflection(Orthogonalise(xf)),
               <<At(xf, 0, 3), At(xf, 1, 3), At(xf, 2, 3)>>, angles)

\* ------------------------------------------------------------------------
\* Inputs
\* ------------------------------------------------------------------------
Angle0   == <<One, Zero>>                  \* 0
AngleP90 == <<Zero, One>>                  \* +pi/2
AngleM90 == <<Zero, Neg(One)>>             \* -pi/2
Angle180 == <<Neg(One), Zero>>             \* pi

\* the angles of the 3-4-5 triangle in the four quadrants, and the
\* multiples of pi/2
AngleVals ==
    {Angle0, AngleP90, AngleM90, Angle180}
    \cup {<<Q(a, 5), Q(b, 5)>> : a \in {-3, 3}, b \in {-4, 4}}
    \cup {<<Q(a, 5), Q(b, 5)>> : a \in {-4, 4}, b \in {-3, 3}}

\* the variables of the scripts that are not running
RotIdle == /\ inAngles = None /\ rotMat = None
           /\ decoded = None /\ reencoded = None
AffIdle == /\ inScales = None /\ inOffsets = None /\ inRotations = None
           /\ inOrigin = None /\ xform = None /\ asAngles = None
           /\ result = None

BndIdle == /\ inShape = None /\ inOriginName = None /\ inOffset = None
           /\ inBoundary = None /\ plain = None /\ bounds = None
TrIdle  == /\ inPoints = None /\ inVector = None /\ out = None
ArgIdle == inXform = None /\ inAxes = None

\* ------------------------------------------------------------------------
\* Rotation conversion: angles -> matrix -> angles -> matrix
\* ------------------------------------------------------------------------
InitRot ==
    /\ pc = "start"
    /\ inAngles \in AngleVals \X AngleVals \X AngleVals
    /\ rotMat = None
    /\ decoded = None
    /\ reencoded = None
    /\ AffIdle /\ BndIdle /\ TrIdle /\ ArgIdle

Encode ==
    /\ pc = "start"
    /\ rotMat' = axisAnglesToRotMat(inAngles[1], inAngles[2], inAngles[3])
    /\ pc' = "encoded"
    /\ UNCHANGED <<inAngles, decoded, reencoded, affVars,
                   inXform, inAxes, bndVars, trVars>>

Decode ==
    /\ pc = "encoded"
    /\ decoded' = rotMatToAxisAngles(rotMat)
    /\ pc' = "decoded"
    /\ UNCHANGED <<inAngles, rotMat, reencoded, affVars,
                   inXform, inAxes, bndVars, trVars>>

ReEncode ==
    /\ pc = "decoded"
    /\ reencoded' = axisAnglesToRotMat(decoded[1], decoded[2], decoded[3])
    /\ pc' = "done"
    /\ UNCHANGED <<inAngles, rotMat, decoded, affVars,
                   inXform, inAxes, bndVars, trVars>>

NextRot == Encode \/ Decode \/ ReEncode

SpecRot == InitRot /\ [][NextRot]_vars

\* length of the first column's x, y part: the yLen of rotMatToAxisAngles
YLen(R) == Hypot(At(R, 0, 0), At(R, 1, 0))

IsRotation(R) == MatMul3(R, Transpose3(R)) = Eye3 /\ Det3(R) = One

\* C2: away from gimbal lock, re-encoding the decoded angles of a rotation
\* matrix gives the matrix back element for element.
C2_RoundTrip ==
    (pc = "done" /\ IsRotation(rotMat) /\ ~IsCloseZero(YLen(rotMat)))
        => reencoded = rotMat

C2_Witness ==
    /\ pc = "done"
    /\ IsRotation(rotMat)
    /\ ~IsCloseZero(YLen(rotMat))
    /\ inAngles = <<<<Q(4, 5), Q(3, 5)>>, <<Q(3, 5), Q(-4, 5)>>, <<Q(-3, 5), Q(4, 5)>>>>
    /\ reencoded = rotMat

\* C3: at y = +pi/2 or -pi/2 the decoding reports a z angle of 0 and the
\* decoded angles re-encode to the original matrix.
C3_GimbalLock ==
    (pc = "done" /\ inAngles[2] \in {AngleP90, AngleM90})
        => /\ IsCloseZero(YLen(rotMat))
           /\ decoded[3] = Angle0
           /\ reencoded = rotMat

C3_Witness ==
    /\ pc = "done"
    /\ inAngles = <<<<Q(4, 5), Q(3, 5)>>, AngleP90, <<Q(3, 5), Q(4, 5)>>>>
    /\ decoded[3] = Angle0
    /\ decoded[1] # inAngles[1]
    /\ reencoded = rotMat

\* ------------------------------------------------------------------------
\* compose, then decompose; or decompose of an affine read from a file
\* ------------------------------------------------------------------------
MaxScale == 2

\* scale triples <<k, k + 1, k + 2>> with every choice of signs
Signs == {-1, 1}
ScaleTriples ==
    {<<I(a * k), I(b * (k + 1)), I(c * (k + 2))>> :
        k \in 1..MaxScale, a \in Signs, b \in Signs, c \in Signs}

ScaleVals == {I(k) : k \in {k \in -MaxScale..MaxScale : k # 0}}

OffsetTriples == {<<I(0), I(0), I(0)>>, <<I(1), I(2), I(3)>>}

Origins == {None, <<I(1), I(-2), I(3)>>}

\* the rotations given to compose
ComposeAngles == {Angle0, AngleP90,
                  <<Q(4, 5), Q(3, 5)>>, <<Q(3, 5), Q(-4, 5)>>, <<Q(-3, 5), Q(4, 5)>>}
ComposeRotations == ComposeAngles \X ComposeAngles \X ComposeAngles

\* the square roots taken on the way to the rows g of Orthogonalise, and
\* those rotMatToAxisAngles takes of them, are rational
ExactRows(sx, M1, M2, M3) ==
    /\ Mul(sx, sx) = Dot3(M1, M1)
    /\ Dot3(M2, M2) = One
    /\ Dot3(M3, M3) = One
    /\ IsSquare(Add(Mul(M1[1], M1[1]), Mul(M1[2], M1[2])))
    /\ IsSquare(Add(Mul(M2[3], M2[3]), Mul(M3[3], M3[3])))
    /\ IsSquare(Add(Mul(M2[2], M2[2]), Mul(M3[2], M3[2])))
ExactRootsOf(g) == ExactRows(g[1], g[4][1], g[4][2], g[4][3])

\* every square root decompose takes of the affine xf is rational
ExactRoots(xf) == ExactRootsOf(Orthogonalise(xf))

\* affines of a transformation file: upper-triangular linear parts (scales
\* on the diagonal, shears above it) on which the arithmetic stays rational
ShearVals == {I(-1), I(0), I(1)}
FileXforms ==
    {xf \in {<<<<a, h, j, I(1)>>, <<Zero, b, k, I(2)>>,
               <<Zero, Zero, c, I(3)>>, <<Zero, Zero, Zero, One>>>> :
                 a \in ScaleVals, b \in ScaleVals, c \in {I(-1), I(1)},
                 h \in ShearVals, j \in ShearVals, k \in ShearVals} :
        ExactRoots(xf)}

\* the arguments are those of a call of compose, or those rotMatToAffine
\* passes on, or there are none: the affine is read from a file
InitAffine ==
    /\ pc = "start"
    /\ RotIdle /\ BndIdle /\ TrIdle /\ ArgIdle
    /\ xform = None /\ asAngles = None /\ result = None
    /\ \/ /\ inScales \in ScaleTriples
          /\ inOffsets \in OffsetTriples
          /\ inRotations \in ComposeRotations
          /\ inOrigin \in Origins
       \/ /\ inScales = <<One, One, One>>
          /\ inOffsets = <<Zero, Zero, Zero>>
          /\ inRotations \in {axisAnglesToRotMat(r[1], r[2], r[3]) :
                                r \in ComposeRotations}
          /\ inOrigin \in Origins
       \/ /\ inScales = None /\ inOffsets = None
          /\ inRotations = None /\ inOrigin = None

Compose ==
    /\ pc = "start"
    /\ inScales # None
    /\ IsAngleTriple(inRotations)
    /\ xform' = compose(inScales, inOffsets, inRotations, inOrigin)
    /\ pc' = "composed"
    /\ UNCHANGED <<rotVars, inScales, inOffsets, inRotations, inOrigin,
                   asAngles, result, inXform, inAxes, bndVars, trVars>>

RotMatToAffine ==
    /\ pc = "start"
    /\ inScales # None
    /\ ~IsAngleTriple(inRotations)
    /\ xform' = rotMatToAffine(inRotations, inOrigin)
    /\ pc' = "composed"
    /\ UNCHANGED <<rotVars, inScales, inOffsets, inRotations, inOrigin,
                   asAngles, result, inXform, inAxes, bndVars, trVars>>

\* np.genfromtxt(readlines(xformFile)) in main of decompose.py
ReadXform ==
    /\ pc = "start"
    /\ inScales = None
    /\ \E xf \in FileXforms : xform' = xf
    /\ pc' = "read"
    /\ UNCHANGED <<rotVars, inScales, inOffsets, inRotations, inOrigin,
                   asAngles, result, inXform, inAxes, bndVars, trVars>>

Decompose ==
    /\ pc \in {"composed", "read"}
    /\ \E a \in BOOLEAN :
        /\ asAngles' = a
        /\ result' = decompose(xform, a)
    /\ pc' = "decomposed"
    /\ UNCHANGED <<rotVars, inScales, inOffsets, inRotations, inOrigin, xform,
                   inXform, inAxes, bndVars, trVars>>

NextAffine == Compose \/ RotMatToAffine \/ ReadXform \/ Decompose

SpecAffine == InitAffine /\ [][NextAffine]_vars

Positive(v) == Sign(v[1]) > 0 /\ Sign(v[2]) > 0 /\ Sign(v[3]) > 0
Negatives(v) == Cardinality({i \in 1..3 : Sign(v[i]) < 0})

\* the call was compose(scales, offsets, angles, origin) with three angles
FromAngles == inScales # None /\ IsAngleTriple(inRotations)

C4_SameSignAsInput ==
    (pc = "decomposed" /\ FromAngles /\ Negatives(inScales) = 1)
        => Sign(result[1][1]) = Sign(inScales[1])

\* C4 amended: with exactly one negative scale component, whichever it is,
\* decompose returns a negative sx and positive sy and sz, so the sign of sx
\* is that of the input sx exactly when the negative component is sx.
C4_FoldedIntoSx ==
    (pc = "decomposed" /\ FromAngles /\ Negatives(inScales) = 1)
        => /\ Sign(result[1][1]) < 0
           /\ Sign(result[1][2]) > 0
           /\ Sign(result[1][3]) > 0
           /\ (Sign(result[1][1]) = Sign(inScales[1])) <=> (Sign(inScales[1]) < 0)

C4_Witness ==
    /\ pc = "decomposed" /\ FromAngles
    /\ inScales = <<I(2), I(-3), I(4)>>
    /\ inRotations[1] = <<Q(4, 5), Q(3, 5)>>
    /\ result[1] = <<I(-2), I(3), I(4)>>

\* C5: the rotation matrix decompose(affine, angles=False) returns for a
\* non-singular affine is orthonormal with determinant +1.
C5_Orthonormal ==
    (/\ pc = "decomposed" /\ asAngles = FALSE
     /\ Det3(<<xform[1], xform[2], xform[3]>>) # Zero)
        => IsRotation(result[3])

\* the closed form of compose: linear part R * diag(scales), translation
\* offsets + origin - R * origin, bottom row (0, 0, 0, 1)
ComposeR == IF IsAngleTriple(inRotations)
            THEN axisAnglesToRotMat(inRotations[1], inRotations[2], inRotations[3])
            ELSE inRotations
ComposeOrigin == IF inOrigin = None THEN <<Zero, Zero, Zero>> ELSE inOrigin
ComposeShift ==
    VSub3(VAdd3(inOffsets, ComposeOrigin),
          <<Dot3(ComposeR[1], ComposeOrigin), Dot3(ComposeR[2], ComposeOrigin),
            Dot3(ComposeR[3], ComposeOrigin)>>)

\* C9: compose(scale, offset, R, origin) has the linear part R * diag(scale),
\* the translation column offset + origin - R * origin (offset alone without
\* an origin) and the bottom row (0, 0, 0, 1).
C9_ComposeClosedForm ==
    (pc = "composed")
        => /\ \A i \in 1..3 : \A j \in 1..3 :
                xform[i][j] = Mul(ComposeR[i][j], inScales[j])
           /\ \A i \in 1..3 : xform[i][4] = ComposeShift[i]
           /\ inOrigin = None => \A i \in 1..3 : xform[i][4] = inOffsets[i]
           /\ xform[4] = <<Zero, Zero, Zero, One>>

C9_Witness ==
    /\ pc = "composed"
    /\ inOrigin # None
    /\ inScales = <<I(2), I(-3), I(4)>>
    /\ inOffsets = <<I(1), I(2), I(3)>>
    /\ inRotations = <<<<Q(3, 5), Q(-4, 5)>>, <<Q(4, 5), Q(3, 5)>>,
                       <<Q(-3, 5), Q(4, 5)>>>>
    /\ xform[1][4] # inOffsets[1]
    /\ xform[4] = <<Zero, Zero, Zero, One>>

\* ------------------------------------------------------------------------
\* tools/python/axisBounds.py
\* ------------------------------------------------------------------------
\* A value is <<kind, payload>>.  A numpy array has its ndim as kind: a
\* number that is no sequence (0), a sequence of numbers (1), a sequence of
\* rows (2), a sequence of sequences of rows (3).  NoneVal is Python's None
\* where an array may stand, Raise(e, m) a raised exception and Pair(a, b)
\* the tuple (a, b).
Arr(n, d) == <<n, d>>
Ndim(a) == a[1]
Data(a) == a[2]
NoneVal == <<-1, <<>>>>
Raise(e, m) == <<-2, <<e, m>>>>
Pair(a, b) == <<-3, <<a, b>>>>
IsError(r) == r[1] = -2
IsNone(r) == r[1] = -1

\* isinstance(x, collections.Iterable)
IsIterable(x) == Ndim(x) > 0

Max(S) == CHOOSE m \in S : \A n \in S : n <= m

\* the sequence of F(s[i]), built element by element
RECURSIVE MapSeq(_, _)
MapSeq(F(_), s) ==
    IF s = <<>> THEN <<>> ELSE <<F(Head(s))>> \o MapSeq(F, Tail(s))

\* one row of newp: zeros, then newp[:, ax] = p[:, i] for each i in turn
NewCoord(row, ax, c) ==
    LET idx == {i \in 1..Len(ax) : ax[i] = c}
    IN  IF idx = {} THEN Zero ELSE row[Max(idx)]
NewRow(row, ax) == <<NewCoord(row, ax, 0), NewCoord(row, ax, 1), NewCoord(row, ax, 2)>>

_fillPoints_NoReshape(p, axes) ==
    LET p1 == IF ~IsIterable(p) THEN Arr(1, <<Data(p)>>) ELSE p
    IN  IF IsNone(axes) THEN p1
        ELSE
        LET ax == IF ~IsIterable(axes) THEN <<Data(axes)>> ELSE Data(axes)
            p2 == IF Ndim(p1) = 1 THEN Arr(2, <<Data(p1)>>) ELSE p1
        IN  IF Ndim(p2) # 2
            THEN Raise("ValueError", "Points array must be either one or two dimensions")
            ELSE IF Len(ax) # Len(Data(p2)[1])
            THEN Raise("ValueError", "Points array shape does not match specified number of axes")
            ELSE LET Fill(row) == NewRow(row, ax) IN Arr(2, MapSeq(Fill, Data(p2)))

_fillPoints(p, axes) ==
    LET p1 == IF ~IsIterable(p) THEN Arr(1, <<Data(p)>>) ELSE p
    IN  IF IsNone(axes) THEN p1
        ELSE
        LET ax == IF ~IsIterable(axes) THEN <<Data(axes)>> ELSE Data(axes)
            p2 == IF Ndim(p1) = 1
                  THEN LET Column(v) == <<v>> IN Arr(2, MapSeq(Column, Data(p1)))
                  ELSE p1
        IN  IF Ndim(p2) # 2
            THEN Raise("ValueError", "Points array must be either one or two dimensions")
            ELSE IF Len(ax) # Len(Data(p2)[1])
            THEN Raise("ValueError", "Points array shape does not match specified number of axes")
            ELSE LET Fill(row) == NewRow(row, ax) IN Arr(2, MapSeq(Fill, Data(p2)))

\* xform[:3, :3] and xform[:3, 3]
Linear3(xf) == <<<<xf[1][1], xf[1][2], xf[1][3]>>,
                 <<xf[2][1], xf[2][2], xf[2][3]>>,
                 <<xf[3][1], xf[3][2], xf[3][3]>>>>
Shift3(xf) == <<xf[1][4], xf[2][4], xf[3][4]>>

TransformPoint_AlwaysShifted(v, xf, vector) ==
    VAdd3(MatVec3(Linear3(xf), v), Shift3(xf))

\* one point through the affine: the linear part, then the translation
\* unless the point is a vector
TransformPoint(v, xf, vector) ==
    IF vector THEN MatVec3(Linear3(xf), v)
    ELSE VAdd3(MatVec3(Linear3(xf), v), Shift3(xf))

\* t.size
Size(a) ==
    IF Ndim(a) = 1 THEN Len(Data(a))
    ELSE IF Len(Data(a)) = 0 THEN 0 ELSE Len(Data(a)) * Len(Data(a)[1])

\* t[0]: the first element of an array, an array of one dimension less
First(a) == Arr(Ndim(a) - 1, Data(a)[1])

\* t[:, axes] on an (N, 3) array
SelectAxes(a, axes) ==
    IF ~IsIterable(axes)
    THEN LET Pick(row) == row[Data(axes) + 1] IN Arr(1, MapSeq(Pick, Data(a)))
    ELSE LET Pick(row) == LET At1(i) == row[i + 1] IN MapSeq(At1, Data(axes))
         IN  Arr(2, MapSeq(Pick, Data(a)))

\* np.dot(p, xform[:3, :3].T), and + xform[:3, 3] unless vector
Dotted(fp, xf, vector) ==
    IF IsError(fp) THEN fp
    ELSE IF Ndim(fp) = 1
    THEN IF Len(Data(fp)) # 3
         THEN Raise("ValueError", "shapes not aligned")
         ELSE Arr(1, TransformPoint(Data(fp), xf, vector))
    ELSE IF Ndim(fp) # 2 \/ Len(Data(fp)[1]) # 3
    THEN Raise("ValueError", "shapes not aligned")
    ELSE LET Through(v) == TransformPoint(v, xf, vector)
         IN  Arr(2, MapSeq(Through, Data(fp)))

\* if axes is not None: t = t[:, axes]
Selected(t, axes) ==
    IF IsError(t) \/ IsNone(axes) THEN t ELSE SelectAxes(t, axes)

\* if t.size == 1: return t[0] else: return t
Squeezed(t) == IF ~IsError(t) /\ Size(t) = 1 THEN First(t) ELSE t

transform(p, xf, axes, vector) ==
    Squeezed(Selected(Dotted(_fillPoints(p, axes), xf, vector), axes))

\* str.lower() on a string held as its sequence of characters
UpperCase == <<"A", "B", "C", "D", "E", "F", "G", "H", "I", "J", "K", "L", "M",
               "N", "O", "P", "Q", "R", "S", "T", "U", "V", "W", "X", "Y", "Z">>
LowerCase == <<"a", "b", "c", "d", "e", "f", "g", "h", "i", "j", "k", "l", "m",
               "n", "o", "p", "q", "r", "s", "t", "u", "v", "w", "x", "y", "z">>
LowerChar(c) ==
    IF \E i \in 1..26 : UpperCase[i] = c
    THEN LowerCase[CHOOSE i \in 1..26 : UpperCase[i] = c]
    ELSE c
Lower(str) == MapSeq(LowerChar, str)

Centre == <<"c", "e", "n", "t", "r", "e">>
Center == <<"c", "e", "n", "t", "e", "r">>
Corner == <<"c", "o", "r", "n", "e", "r">>

NormalOrigin_CaseSensitive(origin) ==
    IF origin = Center THEN Centre ELSE origin

\* the origin axisBounds works with: lower case, 'center' spelt 'centre'
NormalOrigin(origin) ==
    IF Lower(origin) = Center THEN Centre ELSE Lower(origin)

\* tx[:, c].min() and tx[:, c].max() over the rows of tx
RECURSIVE ColMin(_, _)
ColMin(rows, c) ==
    IF Len(rows) = 1 THEN rows[1][c + 1]
    ELSE MinQ(rows[1][c + 1], ColMin(Tail(rows), c))
RECURSIVE ColMax(_, _)
ColMax(rows, c) ==
    IF Len(rows) = 1 THEN rows[1][c + 1]
    ELSE MaxQ(rows[1][c + 1], ColMax(Tail(rows), c))

\* x0 (and y0, z0): the low voxel bound, raised by offset for 'low', 'both'
LowCorner_OffsetSubtracted(org, boundary, offset) ==
    LET lo0 == IF org = Centre THEN Neg(Q(1, 2)) ELSE Zero
    IN  IF boundary \in {"low", "both"} THEN Sub(lo0, offset) ELSE lo0

LowCorner(org, boundary, offset) ==
    LET lo0 == IF org = Centre THEN Neg(Q(1, 2)) ELSE Zero
    IN  IF boundary \in {"low", "both"} THEN Add(lo0, offset) ELSE lo0

\* x (and y, z): the high voxel bound of an axis of n voxels, lowered by
\* offset for 'high', 'both'
HighCorner_CentreIgnored(n, org, boundary, offset) ==
    IF boundary \in {"high", "both"} THEN Sub(n, offset) ELSE n

HighCorner(n, org, boundary, offset) ==
    LET hi0 == IF org = Centre THEN Sub(n, Q(1, 2)) ELSE n
    IN  IF boundary \in {"high", "both"} THEN Sub(hi0, offset) ELSE hi0

\* the eight corners of the image
Points(x0, y0, z0, x, y, z) ==
    Arr(2, <<<<x0, y0, z0>>, <<x0, y0, z>>, <<x0, y, z0>>, <<x0, y, z>>,
             <<x, y0, z0>>, <<x, y0, z>>, <<x, y, z0>>, <<x, y, z>>>>)

\* (lo, hi) of the transformed corners tx on the axes ax
Extents(tx, ax, scalar) ==
    LET Lo(c) == ColMin(Data(tx), c)
        Hi(c) == ColMax(Data(tx), c)
    IN  IF scalar
        THEN Pair(Arr(0, Lo(ax[1])), Arr(0, Hi(ax[1])))
        ELSE Pair(Arr(1, MapSeq(Lo, ax)), Arr(1, MapSeq(Hi, ax)))

axisBounds(shape, xf, axes, origin, boundary, offset) ==
    LET org == NormalOrigin(origin)
        scalar == ~IsNone(axes) /\ ~IsIterable(axes)
        ax == IF IsNone(axes) THEN <<0, 1, 2>>
              ELSE IF ~IsIterable(axes) THEN <<Data(axes)>> ELSE Data(axes)
    IN  IF org \notin {Centre, Corner}
        THEN Raise("ValueError", "Invalid origin value")
        ELSE IF boundary \notin {"low", "high", "both", None}
        THEN Raise("ValueError", "Invalid boundary value")
        ELSE Extents(transform(Points(LowCorner(org, boundary, offset),
                                      LowCorner(org, boundary, offset),
                                      LowCorner(org, boundary, offset),
                                      HighCorner(shape[1], org, boundary, offset),
                                      HighCorner(shape[2], org, boundary, offset),
                                      HighCorner(shape[3], org, boundary, offset)),
                               xf, NoneVal, FALSE),
                     ax, scalar)

\* ------------------------------------------------------------------------
\* axisBounds with boundary=None, then with another boundary
\* ------------------------------------------------------------------------
MaxShape == 2

Shapes == {<<I(a), I(b), I(c)>> : a \in 1..MaxShape, b \in 1..MaxShape,
                                   c \in 1..MaxShape}
          \cup {<<I(10), I(10), I(10)>>}

\* the affine with the diagonal k and the translation t
ScaleShift(k, t) == <<<<k[1], Zero, Zero, t[1]>>, <<Zero, k[2], Zero, t[2]>>,
                      <<Zero, Zero, k[3], t[3]>>, <<Zero, Zero, Zero, One>>>>

BoundsXforms ==
    {Eye4,
     ScaleShift(<<I(2), I(2), I(2)>>, <<I(0), I(0), I(1)>>),
     ScaleShift(<<I(-1), I(2), I(3)>>, <<I(1), I(2), I(3)>>),
     \* the z row of the linear part is zero
     ScaleShift(<<I(1), I(1), I(0)>>, <<I(0), I(0), I(5)>>),
     compose(<<I(1), I(2), I(3)>>, <<I(1), I(2), I(3)>>,
             <<Angle0, Angle0, <<Q(3, 5), Q(4, 5)>>>>, None),
     compose(<<I(1), I(1), I(1)>>, <<I(0), I(0), I(0)>>,
             <<<<Q(4, 5), Q(-3, 5)>>, <<Q(3, 5), Q(4, 5)>>, Angle0>>, None)}

BoundsAxes == {NoneVal, Arr(0, 0), Arr(0, 1), Arr(0, 2), Arr(1, <<0, 2>>)}

OriginNames == {Centre, Center, <<"C", "E", "N", "T", "E", "R">>,
                <<"C", "o", "r", "n", "e", "r">>,
                <<"m", "i", "d", "d", "l", "e">>}

Offsets == {Q(1, 10000), I(1), I(2)}

Boundaries == {"low", "high", "both", None, "BOTH"}

InitBounds ==
    /\ pc = "start"
    /\ RotIdle /\ AffIdle /\ TrIdle
    /\ inShape \in Shapes
    /\ inXform \in BoundsXforms
    /\ inAxes \in BoundsAxes
    /\ inOriginName \in OriginNames
    /\ inOffset \in Offsets
    /\ inBoundary = None /\ plain = None /\ bounds = None

BoundsPlain ==
    /\ pc = "start"
    /\ plain' = axisBounds(inShape, inXform, inAxes, inOriginName, None, inOffset)
    /\ pc' = "plain"
    /\ UNCHANGED <<rotVars, affVars, trVars, inXform, inAxes, inShape,
                   inOriginName, inOffset, inBoundary, bounds>>

BoundsWith ==
    /\ pc = "plain"
    /\ \E b \in Boundaries :
        /\ inBoundary' = b
        /\ bounds' = axisBounds(inShape, inXform, inAxes, inOriginName, b, inOffset)
    /\ pc' = "bounded"
    /\ UNCHANGED <<rotVars, affVars, trVars, inXform, inAxes, inShape,
                   inOriginName, inOffset, plain>>

NextBounds == BoundsPlain \/ BoundsWith

SpecBounds == InitBounds /\ [][NextBounds]_vars

\* the lows and the highs of a result of axisBounds, as sequences
Lows(r)  == IF Ndim(Data(r)[1]) = 0 THEN <<Data(Data(r)[1])>> ELSE Data(Data(r)[1])
Highs(r) == IF Ndim(Data(r)[2]) = 0 THEN <<Data(Data(r)[2])>> ELSE Data(Data(r)[2])

\* the axes asked of axisBounds, in the order of the result
RequestedAxes == IF IsNone(inAxes) THEN <<0, 1, 2>>
                 ELSE IF Ndim(inAxes) = 0 THEN <<Data(inAxes)>> ELSE Data(inAxes)

\* the spellings of OriginNames that name the centre or the corner
CentreNames == {Centre, Center, <<"C", "E", "N", "T", "E", "R">>}
CornerNames == {<<"C", "o", "r", "n", "e", "r">>}

\* C6 as stated: with any offset > 0, boundary='both' gives lows strictly
\* above and highs strictly below those of boundary=None.
C6_StrictlyInside ==
    (/\ pc = "bounded" /\ inBoundary = "both"
     /\ ~IsError(bounds)
     /\ Sign(inOffset) > 0)
        => \A i \in 1..Len(RequestedAxes) :
              /\ Lt(Lows(plain)[i], Lows(bounds)[i])
              /\ Lt(Highs(bounds)[i], Highs(plain)[i])

\* C6 amended: with 0 < offset < every extent of the shape, boundary='both'
\* gives, on every requested axis whose row of the affine's linear part is
\* not all zero, a low strictly above and a high strictly below those of
\* boundary=None.
C6_InsideForSmallOffset ==
    (/\ pc = "bounded" /\ inBoundary = "both"
     /\ ~IsError(bounds)
     /\ Sign(inOffset) > 0
     /\ \A j \in 1..3 : Lt(inOffset, inShape[j]))
        => \A i \in 1..Len(RequestedAxes) :
              Linear3(inXform)[RequestedAxes[i] + 1] # <<Zero, Zero, Zero>>
                => /\ Lt(Lows(plain)[i], Lows(bounds)[i])
                   /\ Lt(Highs(bounds)[i], Highs(plain)[i])

C6_Witness ==
    /\ pc = "bounded" /\ inBoundary = "both"
    /\ inOffset = Q(1, 10000)
    /\ inShape = <<I(2), I(1), I(2)>>
    /\ inAxes = Arr(0, 1)
    /\ Linear3(inXform)[2] = <<Q(4, 5), Q(6, 5), Zero>>
    /\ ~IsError(bounds)
    /\ Lt(Lows(plain)[1], Lows(bounds)[1])
    /\ Lt(Highs(bounds)[1], Highs(plain)[1])

Half == Q(1, 2)

C8_Validation ==
    (pc = "bounded")
        => /\ IsError(bounds) <=>
                \/ inOriginName \notin CentreNames \cup CornerNames
                \/ inBoundary \notin {"low", "high", "both", None}
           /\ IsError(bounds) => Data(bounds)[1] = "ValueError"
           /\ ~IsError(bounds) => bounds[1] = -3
           /\ IsError(plain) <=> inOriginName \notin CentreNames \cup CornerNames

C8_Witness ==
    /\ pc = "bounded"
    /\ inOriginName = <<"C", "E", "N", "T", "E", "R">>
    /\ inBoundary = "both"
    /\ ~IsError(bounds)

C8_WitnessRaised ==
    /\ pc = "bounded"
    /\ inOriginName \in CentreNames
    /\ inBoundary = "BOTH"
    /\ IsError(bounds)

\* ------------------------------------------------------------------------
\* transform
\* ------------------------------------------------------------------------
MaxCoord == 1

CoordVals == {I(v) : v \in -1..MaxCoord} \cup {I(5)}

\* the row <<v, v + 1, v + 2>> cut to k columns
CoordRow(v, k) == SubSeq(<<v, Add(v, I(1)), Add(v, I(2))>>, 1, k)

PointArrays ==
    {Arr(0, v) : v \in CoordVals}
    \cup {Arr(1, CoordRow(v, k)) : v \in CoordVals, k \in 1..3}
    \cup {Arr(2, SubSeq(<<CoordRow(v, k), CoordRow(Add(v, I(1)), k)>>, 1, n)) :
            v \in CoordVals, k \in 1..3, n \in 1..2}
    \cup {Arr(3, <<<<<<v>>>>>>) : v \in CoordVals}

TransformAxes ==
    {NoneVal, Arr(0, 0), Arr(0, 1), Arr(0, 2),
     Arr(1, <<0>>), Arr(1, <<2>>), Arr(1, <<0, 1>>), Arr(1, <<2, 0>>),
     Arr(1, <<1, 2>>), Arr(1, <<0, 1, 2>>)}

TransformXforms ==
    {Eye4,
     ScaleShift(<<I(2), I(2), I(2)>>, <<I(0), I(0), I(1)>>),
     ScaleShift(<<I(-1), I(2), I(3)>>, <<I(1), I(2), I(3)>>),
     ScaleShift(<<I(3), I(-2), I(1)>>, <<I(-1), I(0), I(4)>>),
     compose(<<I(1), I(2), I(3)>>, <<I(1), I(2), I(3)>>,
             <<Angle0, Angle0, <<Q(3, 5), Q(4, 5)>>>>, None)}

InitTransform ==
    /\ pc = "start"
    /\ RotIdle /\ AffIdle /\ BndIdle
    /\ inPoints \in PointArrays
    /\ inXform \in TransformXforms
    /\ inAxes \in TransformAxes
    /\ inVector \in BOOLEAN
    /\ out = None

Transform ==
    /\ pc = "start"
    /\ out' = transform(inPoints, inXform, inAxes, inVector)
    /\ pc' = "transformed"
    /\ UNCHANGED <<rotVars, affVars, bndVars, inXform, inAxes, inPoints, inVector>>

NextTransform == Transform

SpecTransform == InitTransform /\ [][NextTransform]_vars

\* the affine is made of per-axis scales and a translation only
IsScaleShift(xf) ==
    xf = ScaleShift(<<xf[1][1], xf[2][2], xf[3][3]>>, Shift3(xf))

\* the one coordinate of p, when p holds one
OneCoord(p) == IF Ndim(p) = 0 THEN Data(p)
               ELSE IF Ndim(p) = 1 THEN Data(p)[1] ELSE Data(p)[1][1]
HoldsOneCoord(p) ==
    \/ Ndim(p) = 0
    \/ Ndim(p) = 1 /\ Len(Data(p)) = 1
    \/ Ndim(p) = 2 /\ Len(Data(p)) = 1 /\ Len(Data(p)[1]) = 1

\* v on axis a of a full 3-D point, zero elsewhere
Embed(v, a) == <<IF a = 0 THEN v ELSE Zero, IF a = 1 THEN v ELSE Zero,
                 IF a = 2 THEN v ELSE Zero>>

\* C10: through an affine of per-axis scales k and a translation t, a
\* coordinate v given along axis a comes out as k[a] * v + t[a] (k[a] * v for
\* a vector), the axis-a component of the transformed full 3-D point.
C10_AxisProjection ==
    (/\ pc = "transformed"
     /\ IsScaleShift(inXform)
     /\ Ndim(inAxes) = 0
     /\ HoldsOneCoord(inPoints))
        => LET a == Data(inAxes)
               v == OneCoord(inPoints)
               kv == Mul(inXform[a + 1][a + 1], v)
           IN  /\ out = Arr(0, IF inVector THEN kv
                               ELSE Add(kv, inXform[a + 1][4]))
               /\ out = Arr(0, Data(transform(Arr(1, Embed(v, a)), inXform,
                                              NoneVal, inVector))[a + 1])

C10_Witness ==
    /\ pc = "transformed"
    /\ inXform = ScaleShift(<<I(2), I(2), I(2)>>, <<I(0), I(0), I(1)>>)
    /\ inAxes = Arr(0, 2)
    /\ inPoints = Arr(1, <<I(5)>>)
    /\ inVector = FALSE
    /\ out = Arr(0, I(11))

\* len(axes), axes being one axis or a list of axes
NamedAxes(axes) == IF Ndim(axes) = 0 THEN 1 ELSE Len(Data(axes))

\* the coordinates of each point of p, an array of one dimension being one
\* point, as it is when transform is called without axes
CoordsPerPoint(p) ==
    IF Ndim(p) = 0 THEN 1
    ELSE IF Ndim(p) = 1 THEN Len(Data(p)) ELSE Len(Data(p)[1])

\* the columns of p as transform counts them with axes: a number or an
\* array of one dimension is a column of values, one coordinate a point
ColumnsPerPoint(p) == IF Ndim(p) = 2 THEN Len(Data(p)[1]) ELSE 1

ShapeMismatch ==
    Raise("ValueError", "Points array shape does not match specified number of axes")
DimensionError ==
    Raise("ValueError", "Points array must be either one or two dimensions")

\* C11 as stated, a point being a row of coordinates: with axes, transform
\* fails, with the shape-mismatch error, exactly when the coordinates given
\* for each point are not as many as the named axes.
C11_MismatchByCoordinates ==
    (pc = "transformed" /\ ~IsNone(inAxes) /\ Ndim(inPoints) <= 2)
        => /\ (out = ShapeMismatch)
                <=> (CoordsPerPoint(inPoints) # NamedAxes(inAxes))
           /\ IsError(out) => out = ShapeMismatch

\* C11 amended: with axes, a number or an array of one dimension is taken as
\* points of one coordinate each and an array of two dimensions as points of
\* as many coordinates as it has columns; transform fails, with the
\* shape-mismatch error, exactly when that count is not the number of named
\* axes, and an array of three dimensions fails with the dimension error.
C11_MismatchByColumns ==
    (pc = "transformed" /\ ~IsNone(inAxes))
        => IF Ndim(inPoints) <= 2
           THEN /\ (out = ShapeMismatch)
                     <=> (ColumnsPerPoint(inPoints) # NamedAxes(inAxes))
                /\ IsError(out) => out = ShapeMismatch
           ELSE out = DimensionError

\* two coordinates in an array of one dimension, two named axes: the error
C11_Witness ==
    /\ pc = "transformed"
    /\ inPoints = Arr(1, <<I(5), I(6)>>)
    /\ inAxes = Arr(1, <<0, 1>>)
    /\ CoordsPerPoint(inPoints) = NamedAxes(inAxes)
    /\ out = ShapeMismatch

\* C12: for every affine whose linear part is not singular, decompose
\* returns sy > 0 and sz > 0, and sx < 0 exactly when the determinant of the
\* linear part is negative, sx > 0 otherwise.
C12_ReflectionOnSx ==
    (pc = "decomposed" /\ Det3(Linear3(xform)) # Zero)
        => /\ Sign(result[1][2]) > 0
           /\ Sign(result[1][3]) > 0
           /\ Sign(result[1][1]) # 0
           /\ (Sign(result[1][1]) < 0) <=> (Sign(Det3(Linear3(xform))) < 0)

\* an affine read from a file, with shear, whose y scale is the negative one
C12_Witness ==
    /\ pc = "decomposed"
    /\ inScales = None
    /\ xform[1][2] # Zero
    /\ Sign(xform[1][1]) > 0 /\ Sign(xform[2][2]) < 0 /\ Sign(xform[3][3]) > 0
    /\ Sign(Det3(Linear3(xform))) < 0
    /\ Sign(result[1][1]) < 0
    /\ Sign(result[1][2]) > 0
    /\ Sign(result[1][3]) > 0

====
